---- MODULE Spec2Model ----
(***************************************************************************)
(* Model of pymooney's image transformation pipeline                       *)
(* (crmooney.apply_mooney_transform) and of the helpers of utils_image it  *)
(* calls: mkdir, save_img, resize, rgb2gray, gauss_filter, threshold_img.  *)
(*                                                                         *)
(* An n-dimensional uint8 array is a record [shape, data]: shape is the    *)
(* tuple of axis lengths, data the samples in row-major (C) order.         *)
(* Strings that the code splits or concatenates (file names) are sequences *)
(* of one-character strings; a directory path is the sequence of its       *)
(* components, <<>> being the root.                                        *)
(***************************************************************************)
EXTENDS Integers, Sequences, FiniteSets, TLC

VARIABLES
    pc,               \* position of the call being executed
    img,              \* the local/parameter img
    imgname,          \* parameter imgname
    mooneypath,       \* parameter mooneypath
    transformations,  \* parameter transformations
    image_size,       \* locals of apply_mooney_transform
    resize,
    smooth_sigma,
    threshold_method,
    threshold,
    radius,           \* the radius parameter threshold_img ran with
    dirs,             \* file system: the directories that exist
    readonly,         \* file system: directories without write permission
    files,            \* file system: image files written, in order
    events,           \* trace of stage computations and writes
    err,              \* the exception that ended the call, or NoError
    ret               \* the value returned by the call

vars == <<pc, img, imgname, mooneypath, transformations, image_size, resize,
          smooth_sigma, threshold_method, threshold, radius, dirs, readonly,
          files, events, err, ret>>

-----------------------------------------------------------------------------
(* Bounds of the model.                                                    *)

MaxChan == 2         \* channel samples 0..MaxChan and 255-MaxChan..255
MaxGray == 2         \* intensities 0..MaxGray and 255-MaxGray..255
NumPix == 3          \* pixels of an image given to threshold_img
MaxDepth == 2        \* deepest directory path
MaxDots == 2         \* most dots in a source file name
MaxCalls == 3        \* calls of mkdir and save_img in one run

-----------------------------------------------------------------------------
(* Generic helpers.                                                        *)

Min2(a, b) == IF a < b THEN a ELSE b

Max2(a, b) == IF a > b THEN a ELSE b

Abs(a) == IF a < 0 THEN -a ELSE a

SetMin(S) == CHOOSE x \in S : \A y \in S : x <= y

SetMax(S) == CHOOSE x \in S : \A y \in S : x >= y

Front(s) == SubSeq(s, 1, Len(s) - 1)

Last(s) == s[Len(s)]

RECURSIVE Prod(_)
Prod(s) == IF s = <<>> THEN 1 ELSE s[1] * Prod(Tail(s))

RECURSIVE SumSeq(_)
SumSeq(s) == IF s = <<>> THEN 0 ELSE s[1] + SumSeq(Tail(s))

\* All sequences whose i-th element is drawn from sets[i].
RECURSIVE SeqProduct(_)
SeqProduct(sets) ==
    IF sets = <<>> THEN {<<>>}
    ELSE {<<x>> \o r : x \in sets[1], r \in SeqProduct(Tail(sets))}

\* Round-half-up of the non-negative rational num/den.
RoundDiv(num, den) == (2 * num + den) \div (2 * den)

-----------------------------------------------------------------------------
(* Python values.                                                          *)

None == [type |-> "NoneType"]

NoError == "none"

NDim(a) == Len(a.shape)

Array(shape, data) == [shape |-> shape, data |-> data]

\* isinstance(transformations, dict)
IsDict(t) == t.type = "dict"

\* dict.get(key, default)
Get(t, key, default) ==
    IF key \in DOMAIN t.items THEN t.items[key] ELSE default

-----------------------------------------------------------------------------
(* utils_image.rgb2gray                                                    *)

WeightR == 299       \* the weights 0.299, 0.587, 0.114 in thousandths
WeightG == 587
WeightB == 114
WeightScale == 1000

\* The exact weighted sum of one pixel, in thousandths.
WeightedSum(r, g, b) == WeightR * r + WeightG * g + WeightB * b

\* The weighted sum is rounded to the nearest integer.
GrayOutcomesRound(r, g, b) ==
    {RoundDiv(WeightedSum(r, g, b), WeightScale)}

\* np.uint8 of the double-precision dot product of one pixel: the cast
\* discards the fractional part.  The three products and two additions are
\* rounded to doubles, so a sum that is a whole number exactly may be
\* computed as just below it (0.299 + 0.587 + 0.114 evaluates to
\* 0.9999999999999999) and then casts to one less; which sums are affected
\* depends on the evaluation order of the BLAS build.
GrayOutcomes(r, g, b) ==
    LET s == WeightedSum(r, g, b)
        e == s \div WeightScale
    IN  IF s % WeightScale = 0 /\ e > 0 THEN {e, e - 1} ELSE {e}

\* np.dot(img[..., :3], [0.299, 0.587, 0.114]) raises ValueError unless the
\* slice keeps exactly three channels.
Rgb2GrayRaises(a) == Min2(Last(a.shape), 3) # 3

\* The arrays rgb2gray(a) can return: the last axis is contracted, the first
\* three channels of every pixel weighted, any further channel dropped.
Rgb2Gray(a) ==
    LET c == Last(a.shape)
        n == Prod(Front(a.shape))
        px(i) == GrayOutcomes(a.data[(i - 1) * c + 1], a.data[(i - 1) * c + 2],
                              a.data[(i - 1) * c + 3])
    IN  {Array(Front(a.shape), d) : d \in SeqProduct([i \in 1..n |-> px(i)])}

-----------------------------------------------------------------------------
(* skimage.filters.threshold_otsu, rank.otsu and utils_image.threshold_img *)

MaxIntensity == 255  \* largest uint8 sample; img_as_ubyte maps True to it
DefaultRadius == 50  \* default of threshold_img's radius parameter

Values(d) == {d[i] : i \in DOMAIN d}

\* Number and sum of the samples of d that are <= t (class 1) or > t (class 2).
W1(d, t) == Cardinality({i \in DOMAIN d : d[i] <= t})

W2(d, t) == Cardinality({i \in DOMAIN d : d[i] > t})

S1(d, t) == SumSeq([i \in DOMAIN d |-> IF d[i] <= t THEN d[i] ELSE 0])

S2(d, t) == SumSeq([i \in DOMAIN d |-> IF d[i] > t THEN d[i] ELSE 0])

\* Between-class variance w1*w2*(mean1 - mean2)^2 of the split at t, as the
\* fraction VarNum/VarDen (both classes non-empty).
VarNum(d, t) ==
    LET x == S1(d, t) * W2(d, t) - S2(d, t) * W1(d, t) IN x * x

VarDen(d, t) == W1(d, t) * W2(d, t)

VarGreater(d, t, u) == VarNum(d, t) * VarDen(d, u) > VarNum(d, u) * VarDen(d, t)

\* The first of the candidates first..last of maximal between-class variance
\* (np.argmax, and the strict > of the rank kernel, both keep the first
\* maximum).  The variance changes only at an intensity that occurs in d, so
\* the first maximum is the first candidate or an intensity of d.
ArgMaxVar(d, first, last) ==
    LET steps == {first} \cup {t \in Values(d) : first <= t /\ t <= last}
    IN  CHOOSE t \in steps :
           /\ \A u \in steps : ~VarGreater(d, u, t)
           /\ \A u \in steps : u < t => VarGreater(d, t, u)

\* The upper edge of the chosen bin is returned instead of its centre.
ThresholdOtsuUpperEdge(d) ==
    LET lo == SetMin(Values(d))
        hi == SetMax(Values(d))
    IN  IF lo = hi THEN d[1] + 1 ELSE ArgMaxVar(d, lo, hi - 1) + 1

\* threshold_otsu(img): a one-valued image returns that value; otherwise the
\* histogram has one bin per integer from min to max and the result is the
\* centre of the bin that maximises the variance, the last bin excluded.
ThresholdOtsu(d) ==
    LET lo == SetMin(Values(d))
        hi == SetMax(Values(d))
    IN  IF lo = hi THEN d[1] ELSE ArgMaxVar(d, lo, hi - 1)

\* The rank kernel _kernel_otsu on the samples d of one neighbourhood: bins
\* 1..255 are tried in order, a bin is kept when its variance is strictly
\* greater than the best so far (initially 0); the result defaults to 0.
KernelOtsu(d) ==
    LET lo == SetMin(Values(d))
        hi == SetMax(Values(d))
    IN  IF Max2(1, lo) > hi - 1 THEN 0 ELSE ArgMaxVar(d, Max2(1, lo), hi - 1)

\* disk(radius): the offsets (dy, dx) with dy^2 + dx^2 <= radius^2.
InDisk(dy, dx, r) == dy * dy + dx * dx <= r * r

\* The samples of the 2D array a inside the disk centred on pixel p (1-based
\* flat index); the part of the disk outside the image contributes nothing.
Neighbourhood(a, p, r) ==
    LET w == a.shape[2]
        y == (p - 1) \div w
        x == (p - 1) % w
        idx == {q \in 1..Len(a.data) :
                   InDisk(((q - 1) \div w) - y, ((q - 1) % w) - x, r)}
    IN  [i \in 1..Cardinality(idx) |->
           a.data[CHOOSE q \in idx : Cardinality({k \in idx : k <= q}) = i]]

\* rank.otsu(img, disk(radius)): one threshold per pixel.
RankOtsu(a, r) ==
    Array(a.shape, [p \in 1..Len(a.data) |-> KernelOtsu(Neighbourhood(a, p, r))])

\* The comparison is strict.
BinarizeGT(a, t) ==
    Array(a.shape, [p \in 1..Len(a.data) |->
                       IF a.data[p] > t THEN MaxIntensity ELSE 0])

\* img >= threshold with a scalar threshold, passed through img_as_ubyte.
BinarizeGlobal(a, t) ==
    Array(a.shape, [p \in 1..Len(a.data) |->
                       IF a.data[p] >= t THEN MaxIntensity ELSE 0])

\* img >= threshold with a threshold array, passed through img_as_ubyte.
BinarizeLocal(a, t) ==
    Array(a.shape, [p \in 1..Len(a.data) |->
                       IF a.data[p] >= t.data[p] THEN MaxIntensity ELSE 0])

Scalar(t) == [kind |-> "scalar", value |-> t]

Raised(e) == [err |-> e]

Returned(binary, t) ==
    [err |-> NoError, img_binary |-> binary, threshold |-> t]

\* The part of threshold_img after the grayscale fallback.  A method that
\* is neither name leaves img_binary unbound at the return statement; the
\* rank filter takes 2D images only.
ThresholdGray(g, method, r) ==
    IF method = "global_otsu"
    THEN Returned(BinarizeGlobal(g, ThresholdOtsu(g.data)),
                  Scalar(ThresholdOtsu(g.data)))
    ELSE IF method = "local_otsu"
    THEN IF NDim(g) = 2
         THEN Returned(BinarizeLocal(g, RankOtsu(g, r)), RankOtsu(g, r))
         ELSE Raised("ValueError")
    ELSE Raised("UnboundLocalError")

\* The outcomes of threshold_img(a, method, r).
ThresholdImg(a, method, r) ==
    IF NDim(a) > 2
    THEN IF Rgb2GrayRaises(a) THEN {Raised("ValueError")}
         ELSE {ThresholdGray(g, method, r) : g \in Rgb2Gray(a)}
    ELSE {ThresholdGray(a, method, r)}

-----------------------------------------------------------------------------
(* utils_image.gauss_filter (scipy.ndimage gaussian_filter, mode nearest)  *)

KernelScale == 10000

\* Half of the normalised Gaussian kernel in units of 1/KernelScale, from
\* the centre outwards; the kernel reaches int(4 * sigma + 0.5) samples to
\* each side.
GaussHalfKernel(sigma) ==
    IF sigma = 1 THEN <<3990, 2420, 540, 44, 1>>
    ELSE <<666, 656, 629, 587, 532, 470, 403, 337, 273, 216, 166, 124, 90,
           64, 44, 29, 19, 12, 7, 4, 3, 1, 1, 0, 0>>

\* Number of samples between two neighbours along axis k (1-based axis).
Stride(shape, k) == Prod(SubSeq(shape, k + 1, Len(shape)))

\* The flat index of the sample j steps from p along axis k; a step beyond
\* the border stays on the border sample (mode "nearest").
Nearest(shape, k, p, j) ==
    LET st == Stride(shape, k)
        c == ((p - 1) \div st) % shape[k]
        cj == Max2(0, Min2(shape[k] - 1, c + j))
    IN  p + (cj - c) * st

\* gaussian_filter1d along axis k; the result is stored back as uint8, the
\* fractional part discarded.
FilterAxis(a, k, sigma) ==
    LET h == GaussHalfKernel(sigma)
        lw == Len(h) - 1
        acc(p) == SumSeq([i \in 1..(2 * lw + 1) |->
                     h[Abs(i - 1 - lw) + 1] * a.data[Nearest(a.shape, k, p, i - 1 - lw)]])
    IN  Array(a.shape, [p \in 1..Len(a.data) |-> acc(p) \div KernelScale])

RECURSIVE FilterAxes(_, _, _)
FilterAxes(a, k, sigma) ==
    IF k > NDim(a) THEN a ELSE FilterAxes(FilterAxis(a, k, sigma), k + 1, sigma)

\* gaussian_filter filters every axis in turn; an axis whose sigma is not
\* above 1e-15 is left out, so sigma <= 0 copies the input.
GaussFilter(a, sigma) == IF sigma > 0 THEN FilterAxes(a, 1, sigma) ELSE a

-----------------------------------------------------------------------------
(* utils_image.resize (PIL Image.resize with the BILINEAR filter)          *)

\* Image.fromarray accepts a 2D array or a 3D array of 1 to 4 channels.
ResizeRaises(a) == ~(NDim(a) = 2 \/ (NDim(a) = 3 /\ Last(a.shape) \in 1..4))

\* Weight of input sample x for output sample xx (both 0-based) when an axis
\* of length n is resampled to length m: the triangle filter centred on
\* (xx + 0.5) * n / m, widened by n / m when the axis shrinks.
TriWeight(n, m, x, xx) ==
    Max2(0, 2 * Max2(n, m) - Abs((2 * x + 1) * m - (2 * xx + 1) * n))

\* One resampling pass along axis k to length m, rounded to uint8.
ResampleAxis(a, k, m) ==
    LET n == a.shape[k]
        st == Stride(a.shape, k)
        shape2 == [a.shape EXCEPT ![k] = m]
        src(p, x) == ((p - 1) \div (st * m)) * (st * n) + x * st + ((p - 1) % st) + 1
        xx(p) == ((p - 1) \div st) % m
        num(p) == SumSeq([i \in 1..n |->
                     TriWeight(n, m, i - 1, xx(p)) * a.data[src(p, i - 1)]])
        den(p) == SumSeq([i \in 1..n |-> TriWeight(n, m, i - 1, xx(p))])
    IN  Array(shape2, [p \in 1..Prod(shape2) |-> RoundDiv(num(p), den(p))])

\* resize(img, size): size is (width, height); the horizontal pass runs
\* first.  Axis 1 holds the rows, axis 2 the columns.
Resize(a, size) == ResampleAxis(ResampleAxis(a, 2, size[1]), 1, size[2])

-----------------------------------------------------------------------------
(* utils_image.mkdir and utils_image.save_img                              *)

Root == <<>>

Prefixes(p) == {SubSeq(p, 1, k) : k \in 0..Len(p)}

\* The deepest existing ancestor of p (the root always exists).
DeepestExisting(ds, p) ==
    CHOOSE q \in Prefixes(p) \cap ds :
        \A q2 \in Prefixes(p) \cap ds : Len(q2) <= Len(q)

\* path.mkdir(parents=True, exist_ok=True) raises PermissionError when the
\* first missing directory has to be created in a directory without write
\* permission; an existing directory raises nothing.
MkdirDenied(ds, ro, p) == p \notin ds /\ DeepestExisting(ds, p) \in ro

\* The PermissionError of path.mkdir is not caught.
MkdirErrorRaw(ds, ro, p) ==
    IF MkdirDenied(ds, ro, p) THEN "PermissionError" ELSE NoError

\* mkdir(folderpath): the exception raised, or NoError.
MkdirError(ds, ro, p) == IF MkdirDenied(ds, ro, p) THEN "ValueError" ELSE NoError

\* The directories after mkdir(folderpath).
MkdirDirs(ds, ro, p) == IF MkdirDenied(ds, ro, p) THEN ds ELSE ds \cup Prefixes(p)

\* imsave(filename, img) encodes a 2D array, or a 3D array of 3 or 4
\* channels, and needs write permission in the directory.
ImsaveError(ro, dir, a) ==
    IF ~(NDim(a) = 2 \/ (NDim(a) = 3 /\ Last(a.shape) \in {3, 4}))
    THEN "ValueError"
    ELSE IF dir \in ro THEN "PermissionError" ELSE NoError

File(dir, name, a) == [dir |-> dir, name |-> name, img |-> a]

\* save_img(img, filename): mkdir(os.path.dirname(filename)), then imsave.
SaveImgError(ds, ro, dir, a) ==
    IF MkdirError(ds, ro, dir) # NoError THEN MkdirError(ds, ro, dir)
    ELSE ImsaveError(ro, dir, a)

SaveImgFiles(fs, ds, ro, dir, name, a) ==
    IF SaveImgError(ds, ro, dir, a) = NoError
    THEN Append(fs, File(dir, name, a)) ELSE fs

-----------------------------------------------------------------------------
(* crmooney.apply_mooney_transform                                         *)

DefaultImageSize == <<400, 400>>

DefaultResize == FALSE

DefaultSmoothSigma == 6

DefaultThresholdMethod == "global_otsu"

file_ext == <<"p", "n", "g">>

\* imgname.split(".")[0]: the characters before the first dot.
Split0(name) ==
    IF \E i \in DOMAIN name : name[i] = "."
    THEN SubSeq(name, 1, (CHOOSE i \in DOMAIN name :
                            name[i] = "." /\ \A j \in 1..(i - 1) : name[j] # ".") - 1)
    ELSE name

\* imgname.split(".")[0] + "_g." + file_ext, and so on for the other stages.
StageFileName(name, suffix) == Split0(name) \o suffix \o <<".">> \o file_ext

SuffixG == <<"_", "g">>

SuffixGR == <<"_", "g", "r">>

SuffixS == <<"_", "s">>

SuffixM == <<"_", "m">>

\* The radius is read from the configuration.
CallRadiusFromConfig(t) == Get(t, "radius", DefaultRadius)

\* The radius threshold_img runs with when called from the pipeline: the
\* call passes img and method only.
CallRadius(t) == DefaultRadius

Compute(stage, a) == [op |-> "compute", stage |-> stage, img |-> a]

Write(stage, a) == [op |-> "write", stage |-> stage, img |-> a]

Raise(e) ==
    /\ pc' = "raised"
    /\ err' = e

\* The assert and the four transformations.get calls.
Call ==
    /\ pc = "call"
    /\ IF IsDict(transformations)
       THEN /\ image_size' = Get(transformations, "image_size", DefaultImageSize)
            /\ resize' = Get(transformations, "resize", DefaultResize)
            /\ smooth_sigma' = Get(transformations, "smooth_sigma", DefaultSmoothSigma)
            /\ threshold_method' =
                  Get(transformations, "threshold_method", DefaultThresholdMethod)
            /\ pc' = "gray"
            /\ err' = err
       ELSE /\ Raise("AssertionError")
            /\ UNCHANGED <<image_size, resize, smooth_sigma, threshold_method>>
    /\ UNCHANGED <<img, imgname, mooneypath, transformations, threshold, radius,
                   dirs, readonly, files, events, ret>>

\* if len(img.shape) > 2: img = utils_image.rgb2gray(img)
Grayscale ==
    /\ pc = "gray"
    /\ IF NDim(img) > 2
       THEN IF Rgb2GrayRaises(img)
            THEN Raise("ValueError") /\ UNCHANGED <<img, events>>
            ELSE /\ \E g \in Rgb2Gray(img) : img' = g
                 /\ events' = Append(events, Compute("g", img))
                 /\ pc' = "save_g"
                 /\ err' = err
       ELSE /\ pc' = "resize"
            /\ UNCHANGED <<img, events, err>>
    /\ UNCHANGED <<imgname, mooneypath, transformations, image_size, resize,
                   smooth_sigma, threshold_method, threshold, radius, dirs,
                   readonly, files, ret>>

\* if resize: img = utils_image.resize(img, size=image_size)
ResizeStage ==
    /\ pc = "resize"
    /\ IF resize
       THEN IF ResizeRaises(img)
            THEN Raise("TypeError") /\ UNCHANGED <<img, events>>
            ELSE /\ img' = Resize(img, image_size)
                 /\ events' = Append(events, Compute("gr", img))
                 /\ pc' = "save_gr"
                 /\ err' = err
       ELSE /\ pc' = "smooth"
            /\ UNCHANGED <<img, events, err>>
    /\ UNCHANGED <<imgname, mooneypath, transformations, image_size, resize,
                   smooth_sigma, threshold_method, threshold, radius, dirs,
                   readonly, files, ret>>

\* img = utils_image.gauss_filter(img, sigma=smooth_sigma)
Smooth ==
    /\ pc = "smooth"
    /\ img' = GaussFilter(img, smooth_sigma)
    /\ events' = Append(events, Compute("s", img))
    /\ pc' = "save_s"
    /\ UNCHANGED <<imgname, mooneypath, transformations, image_size, resize,
                   smooth_sigma, threshold_method, threshold, radius, dirs,
                   readonly, files, err, ret>>

\* img, threshold = utils_image.threshold_img(img, method=threshold_method)
Threshold ==
    /\ pc = "threshold"
    /\ radius' = CallRadius(transformations)
    /\ \E o \in ThresholdImg(img, threshold_method, CallRadius(transformations)) :
          IF o.err = NoError
          THEN /\ img' = o.img_binary
               /\ threshold' = o.threshold
               /\ events' = Append(events, Compute("m", img))
               /\ pc' = "save_m"
               /\ err' = err
          ELSE /\ Raise(o.err)
               /\ UNCHANGED <<img, threshold, events>>
    /\ UNCHANGED <<imgname, mooneypath, transformations, image_size, resize,
                   smooth_sigma, threshold_method, dirs, readonly, files, ret>>

\* fname = os.path.join(mooneypath, ...); utils_image.save_img(img, fname)
Save(stage, suffix, here, next) ==
    /\ pc = here
    /\ dirs' = MkdirDirs(dirs, readonly, mooneypath)
    /\ files' = SaveImgFiles(files, dirs, readonly, mooneypath,
                             StageFileName(imgname, suffix), img)
    /\ IF SaveImgError(dirs, readonly, mooneypath, img) = NoError
       THEN /\ events' = Append(events, Write(stage, img))
            /\ pc' = next
            /\ err' = err
       ELSE /\ Raise(SaveImgError(dirs, readonly, mooneypath, img))
            /\ events' = events
    /\ UNCHANGED <<img, imgname, mooneypath, transformations, image_size, resize,
                   smooth_sigma, threshold_method, threshold, radius, readonly,
                   ret>>

\* The grayscale image is not persisted.
SaveGSkipped ==
    /\ pc = "save_g"
    /\ pc' = "resize"
    /\ UNCHANGED <<img, imgname, mooneypath, transformations, image_size, resize,
                   smooth_sigma, threshold_method, threshold, radius, dirs,
                   readonly, files, events, err, ret>>

SaveG == Save("g", SuffixG, "save_g", "resize")

\* The resized image is written under the grayscale suffix.
SaveGRAsG == Save("gr", SuffixG, "save_gr", "smooth")

SaveGR == Save("gr", SuffixGR, "save_gr", "smooth")

SaveS == Save("s", SuffixS, "save_s", "threshold")

SaveM == Save("m", SuffixM, "save_m", "return")

\* The arguments the stages do not use: the defaults of photo_id and url,
\* and a fixed imagepath.
photo_id == None

url == None

imagepath == <<"in">>

\* The dict returned by apply_mooney_transform.
Result ==
    [img_id |-> photo_id,
     img_name |-> Split0(imgname),
     img_mooney |-> img,
     threshold |-> threshold,
     threshold_method |-> threshold_method,
     resize |-> resize,
     smooth_sigma |-> smooth_sigma,
     url |-> url,
     mooneypath |-> mooneypath,
     imagepath |-> imagepath]

Return ==
    /\ pc = "return"
    /\ ret' = Result
    /\ pc' = "done"
    /\ UNCHANGED <<img, imgname, mooneypath, transformations, image_size, resize,
                   smooth_sigma, threshold_method, threshold, radius, dirs,
                   readonly, files, events, err>>

-----------------------------------------------------------------------------
(* The calls of the pipeline that are explored.                            *)

\* "a", "a.b", "a.b.b", ...: a stem followed by k dotted parts.
RECURSIVE DottedName(_)
DottedName(k) == IF k = 0 THEN <<"a">> ELSE DottedName(k - 1) \o <<".", "b">>

Names == {DottedName(k) : k \in 0..MaxDots}

NotADict == [type |-> "list"]

Dict(items) == [type |-> "dict", items |-> items]

\* A dict from optional entries: each argument is <<>> (key absent) or <<v>>.
Items(sz, rs, sg, tm, rd) ==
    LET present == {k \in {"image_size", "resize", "smooth_sigma",
                           "threshold_method", "radius"} :
                      \/ k = "image_size" /\ sz # <<>>
                      \/ k = "resize" /\ rs # <<>>
                      \/ k = "smooth_sigma" /\ sg # <<>>
                      \/ k = "threshold_method" /\ tm # <<>>
                      \/ k = "radius" /\ rd # <<>>}
    IN  [k \in present |->
           IF k = "image_size" THEN sz[1]
           ELSE IF k = "resize" THEN rs[1]
           ELSE IF k = "smooth_sigma" THEN sg[1]
           ELSE IF k = "threshold_method" THEN tm[1]
           ELSE rd[1]]

SmallSize == <<3, 2>>   \* the (width, height) requested when resize is set

\* The transformation arguments: not a dict, or a dict in which every key
\* is absent or carries a valid or an invalid value.  A dict that sets
\* resize carries image_size as well.
Configs ==
    {NotADict} \cup
    {Dict(Items(IF rs = <<TRUE>> THEN <<SmallSize>> ELSE <<>>, rs, sg, tm, rd)) :
        rs \in {<<>>, <<FALSE>>, <<TRUE>>},
        sg \in {<<>>, <<0>>, <<1>>},
        tm \in {<<>>, <<"global_otsu">>, <<"local_otsu">>, <<"otsu">>},
        rd \in {<<>>, <<1>>}}

\* The input images: grayscale, RGB, RGBA, two-channel and 4-dimensional.
GrayImages == {Array(<<1, 2>>, d) : d \in SeqProduct(<<{0, 255}, {0, 255}>>)}

RGBImages ==
    {Array(<<1, 1, 3>>, d) :
        d \in {<<0, 0, 0>>, <<1, 1, 1>>, <<0, 255, 0>>, <<255, 255, 255>>}}

RGBAImages == {Array(<<1, 1, 4>>, d) : d \in {<<0, 255, 0, 255>>, <<255, 0, 0, 0>>}}

TwoChannelImages == {Array(<<1, 1, 2>>, <<0, 255>>)}

FourDimImages == {Array(<<1, 1, 3, 3>>, <<0, 0, 0, 255, 255, 255, 0, 255, 0>>)}

Images ==
    GrayImages \cup RGBImages \cup RGBAImages \cup TwoChannelImages
        \cup FourDimImages

OutDir == <<"out">>

\* The destination directory is missing, exists, cannot be created, or
\* exists without write permission.
FileSystems ==
    {<<{Root}, {}>>, <<{Root, OutDir}, {}>>, <<{Root}, {Root}>>,
     <<{Root, OutDir}, {OutDir}>>}

Init ==
    /\ pc = "call"
    /\ img \in Images
    /\ imgname \in Names
    /\ mooneypath = OutDir
    /\ transformations \in Configs
    /\ image_size = None
    /\ resize = None
    /\ smooth_sigma = None
    /\ threshold_method = None
    /\ threshold = None
    /\ radius = None
    /\ \E fs \in FileSystems : dirs = fs[1] /\ readonly = fs[2]
    /\ files = <<>>
    /\ events = <<>>
    /\ err = NoError
    /\ ret = None

Next ==
    \/ Call
    \/ Grayscale
    \/ SaveG
    \/ ResizeStage
    \/ SaveGR
    \/ Smooth
    \/ SaveS
    \/ Threshold
    \/ SaveM
    \/ Return

Spec == Init /\ [][Next]_vars

-----------------------------------------------------------------------------
(* Specification of rgb2gray alone: one call on a colour image of one      *)
(* pixel.                                                                  *)

ChanVals == (0..MaxChan) \cup ((MaxIntensity - MaxChan)..MaxIntensity)

Idle ==
    /\ imgname = <<>>
    /\ mooneypath = Root
    /\ transformations = None
    /\ image_size = None
    /\ resize = None
    /\ smooth_sigma = None
    /\ threshold = None
    /\ events = <<>>

IdleVars == <<imgname, mooneypath, transformations, image_size, resize,
              smooth_sigma, threshold, events>>

InitGray ==
    /\ pc = "rgb2gray"
    /\ \E r \in ChanVals, g \in ChanVals, b \in ChanVals :
          img = Array(<<1, 1, 3>>, <<r, g, b>>)
    /\ Idle
    /\ threshold_method = None
    /\ radius = None
    /\ dirs = {Root}
    /\ readonly = {}
    /\ files = <<>>
    /\ err = NoError
    /\ ret = None

CallRgb2Gray ==
    /\ pc = "rgb2gray"
    /\ IF Rgb2GrayRaises(img)
       THEN Raise("ValueError") /\ ret' = ret
       ELSE /\ \E g \in Rgb2Gray(img) : ret' = g
            /\ pc' = "returned"
            /\ err' = err
    /\ UNCHANGED <<img, threshold_method, radius, dirs, readonly, files>>
    /\ UNCHANGED IdleVars

NextGray == CallRgb2Gray

SpecGray == InitGray /\ [][NextGray]_vars

-----------------------------------------------------------------------------
(* Specification of threshold_img alone: one call on a grayscale image.    *)

GrayVals == (0..MaxGray) \cup ((MaxIntensity - MaxGray)..MaxIntensity)

Uniform(v) == Array(<<1, NumPix>>, [i \in 1..NumPix |-> v])

ThresholdInputs ==
    {Array(<<1, NumPix>>, d) : d \in SeqProduct([i \in 1..NumPix |-> GrayVals])}
        \cup {Uniform(v) : v \in 0..MaxIntensity}

InitThreshold ==
    /\ pc = "threshold_img"
    /\ img \in ThresholdInputs
    /\ threshold_method \in {"global_otsu", "local_otsu"}
    /\ radius \in {1, DefaultRadius}
    /\ Idle
    /\ dirs = {Root}
    /\ readonly = {}
    /\ files = <<>>
    /\ err = NoError
    /\ ret = None

CallThresholdImg ==
    /\ pc = "threshold_img"
    /\ \E o \in ThresholdImg(img, threshold_method, radius) :
          IF o.err = NoError
          THEN /\ ret' = o
               /\ pc' = "returned"
               /\ err' = err
          ELSE Raise(o.err) /\ ret' = ret
    /\ UNCHANGED <<img, threshold_method, radius, dirs, readonly, files>>
    /\ UNCHANGED IdleVars

NextThreshold == CallThresholdImg

SpecThreshold == InitThreshold /\ [][NextThreshold]_vars

-----------------------------------------------------------------------------
(* Specification of mkdir and save_img alone: calls on a file system in    *)
(* which at most one directory lacks write permission.                     *)

DirNames == {"a", "b"}

\* a, a/a, ..., b, b/b, ...: the directories of two chains.
AllPaths == {[i \in 1..k |-> n] : n \in DirNames, k \in 1..MaxDepth}

PrefixClosed(ds) == \A p \in ds : Prefixes(p) \subseteq ds

SmallImage == Array(<<1, 1>>, <<0>>)

FileName == <<"f">>

InitFs ==
    /\ pc = "fs"
    /\ \E ds \in SUBSET AllPaths :
          /\ PrefixClosed(ds \cup {Root})
          /\ dirs = ds \cup {Root}
    /\ \E ro \in SUBSET dirs : Cardinality(ro) <= 1 /\ readonly = ro
    /\ Idle
    /\ img = SmallImage
    /\ threshold_method = None
    /\ radius = None
    /\ files = <<>>
    /\ err = NoError
    /\ ret = <<>>

\* mkdir(folderpath), as crmooney calls it on imagepath.
CallMkdir ==
    /\ pc = "fs"
    /\ Len(ret) < MaxCalls
    /\ \E p \in AllPaths :
          /\ dirs' = MkdirDirs(dirs, readonly, p)
          /\ err' = MkdirError(dirs, readonly, p)
          /\ ret' = Append(ret, [op |-> "mkdir", path |-> p,
                                 raised |-> MkdirError(dirs, readonly, p)])
    /\ UNCHANGED <<pc, img, threshold_method, radius, readonly, files>>
    /\ UNCHANGED IdleVars

\* save_img(img, filename) with filename in directory p.
CallSaveImg ==
    /\ pc = "fs"
    /\ Len(ret) < MaxCalls
    /\ \E p \in AllPaths :
          /\ dirs' = MkdirDirs(dirs, readonly, p)
          /\ files' = SaveImgFiles(files, dirs, readonly, p, FileName, img)
          /\ err' = SaveImgError(dirs, readonly, p, img)
          /\ ret' = Append(ret, [op |-> "save_img", path |-> p,
                                 raised |-> SaveImgError(dirs, readonly, p, img)])
    /\ UNCHANGED <<pc, img, threshold_method, radius, readonly>>
    /\ UNCHANGED IdleVars

NextFs == CallMkdir \/ CallSaveImg

SpecFs == InitFs /\ [][NextFs]_vars

-----------------------------------------------------------------------------
(* Properties of the pipeline (specification Spec).                        *)

\* The image apply_mooney_transform was called with.
InputImage == IF events = <<>> THEN img ELSE events[1].img

StageRank(stage) ==
    CASE stage = "g" -> 1 [] stage = "gr" -> 2 [] stage = "s" -> 3 [] stage = "m" -> 4

SuffixOf(stage) ==
    CASE stage = "g" -> SuffixG [] stage = "gr" -> SuffixGR
      [] stage = "s" -> SuffixS [] stage = "m" -> SuffixM

Png == <<".", "p", "n", "g">>

EndsWith(s, tail) ==
    Len(s) >= Len(tail) /\ SubSeq(s, Len(s) - Len(tail) + 1, Len(s)) = tail

Stages == {events[i].stage : i \in DOMAIN events}

\* C1: the stages run in the order grayscale (only for an input of more
\* than 2 dimensions), resize (only if the resize flag is set), smoothing,
\* thresholding; every stage's image is written, under its own suffix,
\* before the next stage computes, and the next stage is given exactly the
\* image that was written.
C1_StagesOrderedAndPersisted ==
    /\ \A i \in DOMAIN events :
          /\ i % 2 = 1 => events[i].op = "compute"
          /\ i % 2 = 0 =>
                /\ events[i].op = "write"
                /\ events[i].stage = events[i - 1].stage
                /\ i \div 2 <= Len(files)
                /\ files[i \div 2].img = events[i].img
                /\ EndsWith(files[i \div 2].name, SuffixOf(events[i].stage) \o Png)
          /\ (i > 2 /\ i % 2 = 1) =>
                /\ StageRank(events[i].stage) > StageRank(events[i - 2].stage)
                /\ events[i].img = events[i - 1].img
    /\ Len(files) = Len(events) \div 2
    /\ "g" \in Stages => events[1].stage = "g" /\ NDim(InputImage) > 2
    /\ (events # <<>> /\ NDim(InputImage) > 2) => events[1].stage = "g"
    /\ "gr" \in Stages => resize = TRUE
    /\ ("s" \in Stages /\ resize = TRUE) => "gr" \in Stages
    /\ "m" \in Stages => "s" \in Stages
    /\ pc = "done" => Len(events) >= 4 /\ events[Len(events)].stage = "m"

\* Witness of C1: a finished run in which all four stages computed and
\* wrote.
C1_Witness ==
    /\ pc = "done"
    /\ Len(events) = 8
    /\ Len(files) = 4

\* The file names a successful run is to leave behind, from the base name
\* the run reports.
ExpectedNames(base, gray, resized) ==
    {base \o SuffixS \o Png, base \o SuffixM \o Png}
        \cup (IF gray THEN {base \o SuffixG \o Png} ELSE {})
        \cup (IF resized THEN {base \o SuffixGR \o Png} ELSE {})

\* C2: a successful run has written exactly _g (iff the input has more than
\* 2 dimensions), _gr (iff the resize flag is true), _s and _m, each once,
\* in the destination directory, all with the extension png.
C2_FilesWritten ==
    pc = "done" =>
        /\ {files[i].name : i \in DOMAIN files} =
              ExpectedNames(ret.img_name, NDim(InputImage) > 2, resize = TRUE)
        /\ Len(files) = Cardinality({files[i].name : i \in DOMAIN files})
        /\ Len(files) \in 2..4
        /\ \A i \in DOMAIN files : files[i].dir = mooneypath

\* Witness of C2: a successful run on a grayscale input with resizing, so
\* that three files were written.
C2_Witness ==
    /\ pc = "done"
    /\ NDim(InputImage) = 2
    /\ resize = TRUE
    /\ Len(files) = 3

\* What the claim C5 calls a malformed configuration.
Malformed(t) ==
    \/ ~IsDict(t)
    \/ \E k \in {"resize", "smooth_sigma", "threshold_method"} : k \notin DOMAIN t.items
    \/ "smooth_sigma" \in DOMAIN t.items /\ ~(t.items["smooth_sigma"] > 0)
    \/ "threshold_method" \in DOMAIN t.items
          /\ t.items["threshold_method"] \notin {"global_otsu", "local_otsu"}

\* C5 (as claimed): a malformed configuration is rejected before any stage
\* runs: no intermediate file is ever written for it and the call never
\* returns a result.
C5_MalformedRejectedFirst ==
    Malformed(transformations) =>
        /\ files = <<>>
        /\ pc # "done"

\* os.path.splitext(name)[0]: the name without its final extension.
StripExt(name) ==
    IF \E i \in 2..Len(name) : name[i] = "."
    THEN SubSeq(name, 1, (CHOOSE i \in 2..Len(name) :
                            name[i] = "." /\ \A j \in (i + 1)..Len(name) : name[j] # ".") - 1)
    ELSE name

\* C7 (as claimed): the base name of every stage file, and the img_name of
\* the result, is the source file name with only its final extension
\* removed.
C7_BaseNameStripsFinalExtension ==
    /\ \A i \in DOMAIN files :
          \E stage \in {"g", "gr", "s", "m"} :
              files[i].name = StripExt(imgname) \o SuffixOf(stage) \o Png
    /\ pc = "done" => ret.img_name = StripExt(imgname)

\* A 2D array, or a 3D array of exactly 3 trailing channels.
Supported(a) == NDim(a) = 2 \/ (NDim(a) = 3 /\ Last(a.shape) = 3)

\* C9 (as claimed): an input of unsupported dimensionality or channel
\* layout is never processed: nothing is computed or written from it, no
\* result is returned, and the call ends with an error.
C9_UnsupportedShapeRejected ==
    ~Supported(InputImage) =>
        /\ events = <<>>
        /\ files = <<>>
        /\ pc \in {"call", "gray", "raised"}

\* C10: with local_otsu the pipeline runs threshold_img with radius 50
\* whatever the configuration holds, and the result has no radius entry.
C10_LocalRadiusIsDefault ==
    /\ (pc \in {"save_m", "return", "done"} /\ threshold_method = "local_otsu") =>
          radius = 50
    /\ pc = "done" => "radius" \notin DOMAIN ret

\* Witness of C10: a finished local_otsu run whose configuration carries a
\* radius entry different from 50.
C10_Witness ==
    /\ pc = "done"
    /\ threshold_method = "local_otsu"
    /\ "radius" \in DOMAIN transformations.items
    /\ transformations.items["radius"] # 50
    /\ radius = 50

-----------------------------------------------------------------------------
(* Properties of threshold_img (specification SpecThreshold).              *)

\* C3: for a 2D image and global_otsu the returned threshold is one number
\* between the image's minimum and maximum, and the binary image holds 255
\* exactly where the input is >= the threshold and 0 elsewhere.
C3_GlobalThreshold ==
    (pc = "returned" /\ threshold_method = "global_otsu") =>
        /\ ret.threshold.kind = "scalar"
        /\ ret.threshold.value >= SetMin(Values(img.data))
        /\ ret.threshold.value <= SetMax(Values(img.data))
        /\ ret.img_binary.shape = img.shape
        /\ \A p \in DOMAIN img.data :
              ret.img_binary.data[p] =
                 IF img.data[p] >= ret.threshold.value THEN 255 ELSE 0

\* Witness of C3: a global_otsu call that returned with three different
\* intensities in the input.
C3_Witness ==
    /\ pc = "returned"
    /\ threshold_method = "global_otsu"
    /\ Cardinality(Values(img.data)) >= 3

IsUniform(a) == \A p \in DOMAIN a.data : a.data[p] = a.data[1]

-----------------------------------------------------------------------------
(* Properties of rgb2gray (specification SpecGray).                        *)

\* The exact weighted sum of the only pixel of img, in thousandths.
PixelSum == WeightedSum(img.data[1], img.data[2], img.data[3])

\* C6 (as claimed): every pixel of the result is 0.299 R + 0.587 G + 0.114 B
\* rounded to the nearest integer, and the result has one dimension less.
C6_GrayRounded ==
    pc = "returned" =>
        /\ ret.data[1] = RoundDiv(PixelSum, 1000)
        /\ NDim(ret) = NDim(img) - 1

\* C6 (amended): every pixel of the result is the weighted sum with its
\* fractional part discarded: the floor of the exact sum, or one less when
\* the exact sum is a whole number; it lies in 0..255 and the result has one
\* dimension less.
C6_GrayTruncated ==
    pc = "returned" =>
        /\ \/ ret.data[1] = PixelSum \div 1000
           \/ PixelSum % 1000 = 0 /\ ret.data[1] = (PixelSum \div 1000) - 1
        /\ ret.data[1] \in 0..255
        /\ NDim(ret) = NDim(img) - 1
        /\ ret.shape = <<1, 1>>

\* Witness of C6: a returned pixel whose weighted sum has a fractional part
\* of one half or more, where truncating and rounding differ.
C6_Witness ==
    /\ pc = "returned"
    /\ PixelSum % 1000 >= 500
    /\ ret.data[1] = PixelSum \div 1000

-----------------------------------------------------------------------------
(* Properties of mkdir and save_img (specification SpecFs).                *)

\* The call made by the step, as logged.
LastCall == ret'[Len(ret')]

\* C8: mkdir on an existing directory raises nothing and changes nothing;
\* a successful mkdir leaves the directory and all its parents in place; a
\* directory that cannot be created for lack of permission raises
\* ValueError, never PermissionError, and save_img then writes no file.
C8_Mkdir ==
    [][Len(ret') = Len(ret) + 1 =>
          /\ LastCall.path \in dirs =>
                /\ dirs' = dirs
                /\ LastCall.raised # "ValueError"
                /\ LastCall.op = "mkdir" => LastCall.raised = NoError
          /\ LastCall.raised = NoError => Prefixes(LastCall.path) \subseteq dirs'
          /\ (\E q \in readonly :
                 /\ q \in Prefixes(LastCall.path)
                 /\ Prefixes(LastCall.path) \cap dirs \subseteq Prefixes(q)
                 /\ q # LastCall.path) =>
                /\ LastCall.raised = "ValueError"
                /\ dirs' = dirs
                /\ files' = files
          /\ LastCall.op = "mkdir" => LastCall.raised # "PermissionError"
          /\ LastCall.raised = "ValueError" => files' = files
    ]_vars

\* Witness of C8: mkdir created a directory with its parent, a second mkdir
\* of the same directory succeeded, and a save_img into a directory that
\* could not be created raised ValueError and wrote nothing.
C8_Witness ==
    /\ Len(ret) = 3
    /\ ret[1].op = "mkdir" /\ ret[1].raised = NoError /\ Len(ret[1].path) = 2
    /\ ret[2] = ret[1]
    /\ ret[3].op = "save_img" /\ ret[3].raised = "ValueError"
    /\ files = <<>>

====
